---- MODULE Spec2Model ----
(***************************************************************************)
(* State-machine model of the "bring ideas to life" browser application:   *)
(* App.tsx (theme, history, generation, import, reset), InputArea (upload  *)
(* form), LivePreview (export, preview frame) and services/gemini.ts       *)
(* (request assembly and response parsing).                                *)
(*                                                                         *)
(* JavaScript values are modelled by tokens:                               *)
(*   - a string / JSON scalar field is a TLA+ string; "undefined" is a     *)
(*     missing key, "null" is null, "" the empty string, "#7" a number;    *)
(*   - an html string is the concatenation pre ++ body ++ post;            *)
(*   - a Date is its millisecond value, InvalidDate for an invalid Date;   *)
(*   - an id is a natural number, 0 standing for a missing/falsy id.       *)
(***************************************************************************)
EXTENDS Integers, Sequences, FiniteSets, TLC

\* ------------------------------------------------------------- bounds
MaxCalls == 2       \* generation calls issued in one session
MaxImports == 2     \* import files loaded in one session
MaxAnalyses == 1    \* analysis calls issued in one session

\* -------------------------------------------------- JavaScript values
Undefined == "undefined"
JsNull == "null"
NumberToken == "#7"
InvalidDate == 0 - 1

\* JavaScript truthiness of a scalar token
Truthy(v) == v \notin {Undefined, JsNull, ""}

\* typeof v === 'string'
IsString(v) == v \notin {Undefined, JsNull, NumberToken}

\* a || b
OrElse(a, b) == IF Truthy(a) THEN a ELSE b

\* an html string: pre ++ body ++ post
Html(s) == [pre |-> "", body |-> s, post |-> ""]
HtmlTruthy(h) == h.pre # "" \/ h.post # "" \/ Truthy(h.body)

\* MIME types are major/minor pairs
Mime(major, minor) == [major |-> major, minor |-> minor]
NoMime == Mime("", "")
MimeTruthy(m) == m # NoMime

\* an optional data URI `data:${mime};base64,${data}`
NoImage == [k |-> "undefined", mime |-> NoMime, data |-> ""]
DataUrl(mime, data) == [k |-> "dataurl", mime |-> mime, data |-> data]

\* JSON timestamp values: an ISO string, a number, another string, null, absent
JTs(k, t) == [k |-> k, t |-> t]
JTsUndefined == JTs("undefined", 0)
JTsNull == JTs("null", 0)
JTsTruthy(j) == j.k \in {"iso", "str"} \/ (j.k = "num" /\ j.t # 0)

\* new Date(x) for a JSON value x
NewDate(j) ==
    CASE j.k = "iso" -> j.t
      [] j.k = "num" -> j.t
      [] j.k = "null" -> 0
      [] OTHER -> InvalidDate

\* Date.prototype.toJSON: the ISO string, or null for an invalid Date
DateToJSON(d) == IF d = InvalidDate THEN JTsNull ELSE JTs("iso", d)

\* ------------------------------------------------------- JSON documents
\* the fields of a Creation-shaped JSON object
Obj(id, name, html, layout, metadata, img, ts) ==
    [id |-> id, name |-> name, html |-> html, layout |-> layout,
     metadata |-> metadata, originalImage |-> img, timestamp |-> ts]

EmptyObj == Obj(0, Undefined, Html(Undefined), Undefined, Undefined, NoImage, JTsUndefined)

\* a text: its kind, a token naming its raw characters, and the object it denotes
Text(k, raw, v) == [k |-> k, raw |-> raw, v |-> v]

\* JSON.parse: a SyntaxError for text that is not JSON
JSONparse(text) ==
    IF text.k \in {"garbage", "empty"}
    THEN [ok |-> FALSE, k |-> "error", v |-> EmptyObj]
    ELSE [ok |-> TRUE, k |-> text.k, v |-> IF text.k = "object" THEN text.v ELSE EmptyObj]

\* reading a property of a parsed value throws a TypeError on null
PropertyThrows(parsed) == parsed.k = "null"

\* JSON.stringify of a Creation (undefined fields are dropped, Dates become ISO strings)
JSONstringify(c) ==
    Text("object", "{creation}",
         Obj(c.id, c.name, c.html, c.layout, c.metadata, c.originalImage,
             DateToJSON(c.timestamp)))


\* ------------------------------------------------------------ Creation
Creation(id, name, html, layout, metadata, img, ts) ==
    [id |-> id, name |-> name, html |-> html, layout |-> layout,
     metadata |-> metadata, originalImage |-> img, timestamp |-> ts]

Null == [k |-> "null"]

\* crypto.randomUUID(): the n-th identifier drawn in this session; identifiers
\* found in files and fixtures are below 100
randomUUID(n) == 100 + n

\* ---------------------------------------------------------- upload files
File(name, type, size, bytes) == [name |-> name, type |-> type, size |-> size, bytes |-> bytes]

MAX_SIZE_MB == 10
MaxSizeBytes == MAX_SIZE_MB * 1024 * 1024

validTypes ==
    {Mime("image", "jpeg"), Mime("image", "png"), Mime("image", "webp"),
     Mime("image", "heic"), Mime("application", "pdf")}

UploadFiles ==
    {File("blank.png", Mime("image", "png"), 0, ""),
     File("limit.pdf", Mime("application", "pdf"), 10485760, "PDF"),
     File("big.pdf", Mime("application", "pdf"), 15728640, "BIGPDF"),
     File("over.jpg", Mime("image", "jpeg"), 10485761, "JPG"),
     File("anim.gif", Mime("image", "gif"), 1048576, "GIF"),
     File("notes.txt", Mime("text", "plain"), 1024, "TXT"),
     File("unknown", NoMime, 1024, "BIN")}

\* FileReader.readAsDataURL result, split(',')[1]
Base64(file) == IF file.size = 0 THEN "" ELSE file.bytes

ErrUnsupported == "Unsupported file format. Please upload an Image (JPEG, PNG, WebP) or PDF."
\* the message, without the size it quotes
ErrTooLarge == "File is too large. Please keep it under 10MB."
ErrRead == "Failed to read file. Please try again."
NoError == "null"

Frameworks == {"react", "vue", "html"}

\* framework.toUpperCase()
toUpperCase(fw) ==
    CASE fw = "react" -> "REACT" [] fw = "vue" -> "VUE" [] fw = "html" -> "HTML"

\* ------------------------------------------------------------- state
VARIABLES
    mounted,          \* the mount effects of App have run
    fetching,         \* the example fixtures are being fetched (initHistory suspended)
    activeCreation,   \* App: Creation | null
    isGenerating,     \* App
    history,          \* App: Creation[]
    storedHistory,    \* localStorage['gemini_app_history']
    error,            \* InputArea
    isReading,        \* InputArea
    reading,          \* the file an in-flight FileReader is reading, or Null
    selectedFile,     \* InputArea: {file, base64, mimeType} | null
    prompt,           \* InputArea: the prompt, a sequence of text pieces
    framework,        \* InputArea
    isAnalyzing,      \* InputArea
    genCalls,         \* generation calls in flight, in the order issued
    analysisCalls,    \* analysis calls in flight
    exported,         \* the last file downloaded by Export JSON, or Null
    clock,            \* Date.now(); it advances between the handlers that read it
    uuids,            \* number of identifiers drawn from crypto.randomUUID
    issued,           \* generation calls issued so far
    imports,          \* import files loaded so far
    analyses,         \* analysis calls issued so far
    last,             \* the handler that ran last: its alert, the import file it read, whether it threw
    theme,            \* App: 'dark' | 'light' by type, any stored string at run time
    themeQueued,      \* the setTheme(savedTheme) queued by the mount effect, "" when none
    storedTheme       \* localStorage['theme'], "" when absent

vars == <<mounted, fetching, activeCreation, isGenerating, history, storedHistory,
          error, isReading, reading, selectedFile, prompt, framework, isAnalyzing,
          genCalls, analysisCalls, exported, clock, uuids, issued, imports,
          analyses, last, theme, themeQueued, storedTheme>>

appVars == <<activeCreation, isGenerating, history, storedHistory>>
inputVars == <<error, isReading, reading, selectedFile, prompt, framework, isAnalyzing>>
netVars == <<genCalls, analysisCalls>>
envVars == <<exported, clock, uuids, issued, imports, analyses>>
themeVars == <<theme, themeQueued, storedTheme>>

NoAlert == ""
Did(alert, imported) == [alert |-> alert, imported |-> imported, threw |-> FALSE]
\* the handler ended with an uncaught exception
Threw == [alert |-> NoAlert, imported |-> Null, threw |-> TRUE]

isFocused == activeCreation # Null \/ isGenerating

\* ------------------------------------------------------ persisted history
Stored(k, v) == [k |-> k, v |-> v]

\* JSON.stringify(history)
StringifyHistory(h) == Stored("list", [i \in 1..Len(h) |-> JSONstringify(h[i]).v])

\* the save-history effect: runs when history changes; writes only a non-empty
\* list; a failing write (quota) is caught and leaves the stored value alone
SaveEffect(h, store, writeOk) ==
    IF Len(h) > 0 /\ writeOk THEN StringifyHistory(h) ELSE store

\* entries previous sessions can have left in local storage
StoredDocs ==
    <<Obj(21, "Saved A", Html("<a>"), "{}", "{}", NoImage, JTs("iso", 1)),
      Obj(22, "Saved B", Html("<b>"), "L", "M", DataUrl(Mime("image", "png"), "PNG"), JTs("iso", 0))>>

InitialStores ==
    {Stored("absent", <<>>), Stored("garbage", <<>>), Stored("list", <<>>),
     Stored("list", StoredDocs)}

\* initHistory, up to its first await: the entries loaded from local storage
LoadStored(store) ==
    IF store.k = "list"
    THEN [i \in 1..Len(store.v) |->
            LET item == store.v[i] IN
            Creation(item.id, item.name, item.html, item.layout, item.metadata,
                     item.originalImage, NewDate(item.timestamp))]
    ELSE <<>>

\* theme values local storage can hold: none, the two the application writes,
\* and a value it did not write
StoredThemes == {"", "dark", "light", "system"}

\* the useState initial values of App and InputArea
InitState ==
    /\ mounted = FALSE
    /\ fetching = FALSE
    /\ activeCreation = Null
    /\ isGenerating = FALSE
    /\ history = <<>>
    /\ error = NoError
    /\ isReading = FALSE
    /\ reading = Null
    /\ selectedFile = Null
    /\ prompt = <<>>
    /\ framework = "react"
    /\ isAnalyzing = FALSE
    /\ genCalls = <<>>
    /\ analysisCalls = <<>>
    /\ exported = Null
    /\ clock = 2
    /\ uuids = 0
    /\ issued = 0
    /\ imports = 0
    /\ analyses = 0
    /\ last = Did(NoAlert, Null)
    /\ theme = "dark"
    /\ themeQueued = ""

\* a visit with any stored history and no stored theme
Init ==
    /\ InitState
    /\ storedHistory \in InitialStores
    /\ storedTheme = ""

\* mutant: the examples are fetched whatever local storage holds
Mount_fetchesAlways(writeOk) ==
    /\ ~mounted
    /\ mounted' = TRUE
    /\ LET loadedHistory == LoadStored(storedHistory) IN
       IF Len(loadedHistory) > 0
       THEN /\ history' = loadedHistory
            /\ fetching' = TRUE
            /\ storedHistory' = SaveEffect(loadedHistory, storedHistory, writeOk)
       ELSE /\ history' = history
            /\ fetching' = TRUE
            /\ storedHistory' = storedHistory
    /\ themeQueued' = IF Truthy(storedTheme) /\ storedTheme # theme THEN storedTheme ELSE ""
    /\ storedTheme' = theme
    /\ theme' = theme
    /\ last' = Did(NoAlert, Null)
    /\ UNCHANGED <<activeCreation, isGenerating, inputVars, netVars, envVars>>

\* App mount: the theme effects of the first render (the saved theme is read and
\* queued with setTheme, keeping the state when it is the current value; the
\* theme of the first render is written), the initHistory effect up to its first
\* suspension point, then the save-history effect for the history it set
Mount(writeOk) ==
    /\ ~mounted
    /\ mounted' = TRUE
    /\ LET loadedHistory == LoadStored(storedHistory) IN
       IF Len(loadedHistory) > 0
       THEN /\ history' = loadedHistory
            /\ fetching' = FALSE
            /\ storedHistory' = SaveEffect(loadedHistory, storedHistory, writeOk)
       ELSE /\ history' = history
            /\ fetching' = TRUE
            /\ storedHistory' = storedHistory
    /\ themeQueued' = IF Truthy(storedTheme) /\ storedTheme # theme THEN storedTheme ELSE ""
    /\ storedTheme' = theme
    /\ theme' = theme
    /\ last' = Did(NoAlert, Null)
    /\ UNCHANGED <<activeCreation, isGenerating, inputVars, netVars, envVars>>

\* the render for the queued setTheme(savedTheme), and the theme effect after it
ThemeCommit ==
    /\ mounted
    /\ themeQueued # ""
    /\ theme' = themeQueued
    /\ storedTheme' = themeQueued
    /\ themeQueued' = ""
    /\ last' = Did(NoAlert, Null)
    /\ UNCHANGED <<mounted, fetching, appVars, inputVars, netVars, envVars>>

\* prev => prev === 'dark' ? 'light' : 'dark'
ToggleUpdater(prev) == IF prev = "dark" THEN "light" ELSE "dark"

\* toggleTheme, then the theme effect for the new value; a toggle clicked while
\* the startup update is queued is applied after it
toggleTheme ==
    /\ mounted
    /\ themeQueued = ""
    /\ theme' = ToggleUpdater(theme)
    /\ storedTheme' = ToggleUpdater(theme)
    /\ last' = Did(NoAlert, Null)
    /\ UNCHANGED <<mounted, fetching, appVars, inputVars, netVars, envVars, themeQueued>>


\* ------------------------------------------------------ example fixtures
Outcome(k, data) == [k |-> k, data |-> data]

FixtureBlog == Obj(11, "Vibecode Blog", Html("<blog>"), "L", "M", NoImage, JTs("iso", 0))
FixtureCassette == Obj(12, "Cassette", Html("<cassette>"), "L", "M", NoImage, JTs("iso", 0))
FixtureCassetteSameId == Obj(11, "Cassette", Html("<cassette>"), "L", "M", NoImage, JTs("iso", 0))
FixtureChess == Obj(0, "Chess", Html("<chess>"), Undefined, Undefined, NoImage, JTsUndefined)

\* what the three fetches can end with: a JSON body, a non-OK status, a network
\* error, a body that is not JSON
FetchOutcomes ==
    {<<a, b, c>> :
        a \in {Outcome("ok", FixtureBlog), Outcome("notok", EmptyObj)},
        b \in {Outcome("ok", FixtureCassette), Outcome("ok", FixtureCassetteSameId),
               Outcome("reject", EmptyObj)},
        c \in {Outcome("ok", FixtureChess), Outcome("badjson", EmptyObj)}}

\* identifiers drawn by the first i fetch callbacks
DrawnBy(outcomes, i) ==
    Cardinality({j \in 1..i : outcomes[j].k = "ok" /\ outcomes[j].data.id = 0})

\* the object one fetch callback returns for a JSON body
ExampleOf(data, uuid, now) ==
    Creation(IF data.id # 0 THEN data.id ELSE uuid,
             data.name, data.html, data.layout, data.metadata, data.originalImage,
             NewDate(IF JTsTruthy(data.timestamp) THEN data.timestamp ELSE JTs("num", now)))

RECURSIVE ValidExamples(_, _, _, _)
\* examples.filter(e => e !== null), for the outcomes from index i on
ValidExamples(outcomes, i, n, now) ==
    IF i > Len(outcomes) THEN <<>>
    ELSE IF outcomes[i].k = "ok"
         THEN <<ExampleOf(outcomes[i].data, randomUUID(n + DrawnBy(outcomes, i)), now)>>
              \o ValidExamples(outcomes, i + 1, n, now)
         ELSE ValidExamples(outcomes, i + 1, n, now)

\* Promise.all rejects when any fetch or res.json() rejects
AnyRejects(outcomes) == \E i \in 1..Len(outcomes) : outcomes[i].k \in {"reject", "badjson"}

\* initHistory resumes after the fetches: setHistory(validExamples), or the catch
FetchResolve(outcomes, writeOk) ==
    /\ mounted
    /\ fetching
    /\ fetching' = FALSE
    /\ uuids' = uuids + DrawnBy(outcomes, Len(outcomes))
    /\ IF AnyRejects(outcomes)
       THEN UNCHANGED <<history, storedHistory>>
       ELSE LET validExamples == ValidExamples(outcomes, 1, uuids, clock) IN
            /\ history' = validExamples
            /\ storedHistory' = SaveEffect(validExamples, storedHistory, writeOk)
    /\ last' = Did(NoAlert, Null)
    /\ clock' = clock + 1
    /\ UNCHANGED <<mounted, activeCreation, isGenerating, inputVars, netVars,
                   exported, issued, imports, analyses>>
    /\ UNCHANGED themeVars

\* ------------------------------------------------------------ InputArea
\* file.type.startsWith('image/')
isImage(file) == file.type.major = "image"
isPdf(file) == file.type = Mime("application", "pdf")

\* mutant: the size check rejects a file of exactly the limit
handleFile_rejectsAtLimit(file) ==
    IF ~isImage(file) /\ ~isPdf(file)
    THEN /\ error' = ErrUnsupported
         /\ UNCHANGED <<isReading, reading>>
    ELSE IF file.size >= MaxSizeBytes
    THEN /\ error' = ErrTooLarge
         /\ UNCHANGED <<isReading, reading>>
    ELSE /\ error' = NoError
         /\ isReading' = TRUE
         /\ reading' = file

handleFile(file) ==
    IF ~isImage(file) /\ ~isPdf(file)
    THEN /\ error' = ErrUnsupported
         /\ UNCHANGED <<isReading, reading>>
    ELSE IF file.size > MaxSizeBytes
    THEN /\ error' = ErrTooLarge
         /\ UNCHANGED <<isReading, reading>>
    ELSE /\ error' = NoError
         /\ isReading' = TRUE
         /\ reading' = file

\* the drop zone is rendered only while no file is selected
DropZoneShown == mounted /\ selectedFile = Null

\* <input type="file" disabled={isGenerating || isReading || disabled}>
handleFileChange(file) ==
    /\ DropZoneShown
    /\ ~(isGenerating \/ isReading \/ isFocused)
    /\ handleFile(file)
    /\ last' = Did(NoAlert, Null)
    /\ UNCHANGED <<mounted, fetching, appVars, selectedFile, prompt, framework,
                   isAnalyzing, netVars, envVars>>
    /\ UNCHANGED themeVars

\* mutant: a drop is handled whatever isReading, isGenerating and disabled are
handleDrop_unguarded(file) ==
    /\ DropZoneShown
    /\ handleFile(file)
    /\ last' = Did(NoAlert, Null)
    /\ UNCHANGED <<mounted, fetching, appVars, selectedFile, prompt, framework,
                   isAnalyzing, netVars, envVars>>
    /\ UNCHANGED themeVars

\* onDrop of the drop zone: if (disabled || isGenerating || isReading) return
handleDrop(file) ==
    /\ DropZoneShown
    /\ ~(isFocused \/ isGenerating \/ isReading)
    /\ handleFile(file)
    /\ last' = Did(NoAlert, Null)
    /\ UNCHANGED <<mounted, fetching, appVars, selectedFile, prompt, framework,
                   isAnalyzing, netVars, envVars>>
    /\ UNCHANGED themeVars

\* reader.onload
ReaderLoad ==
    /\ reading # Null
    /\ selectedFile' = [file |-> reading, base64 |-> Base64(reading), mimeType |-> reading.type]
    /\ isReading' = FALSE
    /\ reading' = Null
    /\ last' = Did(NoAlert, Null)
    /\ UNCHANGED <<mounted, fetching, appVars, error, prompt, framework, isAnalyzing,
                   netVars, envVars>>
    /\ UNCHANGED themeVars

\* reader.onerror
ReaderError ==
    /\ reading # Null
    /\ error' = ErrRead
    /\ isReading' = FALSE
    /\ reading' = Null
    /\ last' = Did(NoAlert, Null)
    /\ UNCHANGED <<mounted, fetching, appVars, selectedFile, prompt, framework,
                   isAnalyzing, netVars, envVars>>
    /\ UNCHANGED themeVars

\* the toast's dismiss button
DismissError ==
    /\ DropZoneShown
    /\ error # NoError
    /\ error' = NoError
    /\ last' = Did(NoAlert, Null)
    /\ UNCHANGED <<mounted, fetching, appVars, isReading, reading, selectedFile, prompt,
                   framework, isAnalyzing, netVars, envVars>>
    /\ UNCHANGED themeVars

FormShown == mounted /\ selectedFile # Null

TypedPrompts == {<<>>, <<"make it dark mode">>}

\* textarea onChange, disabled={isGenerating}
setPrompt(p) ==
    /\ FormShown
    /\ ~isGenerating
    /\ prompt' = p
    /\ last' = Did(NoAlert, Null)
    /\ UNCHANGED <<mounted, fetching, appVars, error, isReading, reading, selectedFile,
                   framework, isAnalyzing, netVars, envVars>>
    /\ UNCHANGED themeVars

\* select onChange, disabled={isGenerating}
setFramework(fw) ==
    /\ FormShown
    /\ ~isGenerating
    /\ framework' = fw
    /\ last' = Did(NoAlert, Null)
    /\ UNCHANGED <<mounted, fetching, appVars, error, isReading, reading, selectedFile,
                   prompt, isAnalyzing, netVars, envVars>>
    /\ UNCHANGED themeVars

\* mutant: Cancel keeps the prompt
handleClear_keepsPrompt ==
    /\ FormShown
    /\ selectedFile' = Null
    /\ error' = NoError
    /\ framework' = "react"
    /\ last' = Did(NoAlert, Null)
    /\ UNCHANGED <<mounted, fetching, appVars, isReading, reading, isAnalyzing,
                   netVars, envVars, prompt>>
    /\ UNCHANGED themeVars

\* Cancel (disabled while generating) and Remove File (never disabled)
handleClear ==
    /\ FormShown
    /\ selectedFile' = Null
    /\ prompt' = <<>>
    /\ error' = NoError
    /\ framework' = "react"
    /\ last' = Did(NoAlert, Null)
    /\ UNCHANGED <<mounted, fetching, appVars, isReading, reading, isAnalyzing,
                   netVars, envVars>>
    /\ UNCHANGED themeVars


\* --------------------------------------------------- services/gemini.ts
DefaultPromptFile == "Analyze this image/document and generate a production-ready interface following the pipeline."
DefaultPromptDemo == "Create a demo app that shows off your capabilities."

TextPart(text) == [k |-> "text", text |-> text, data |-> "", mimeType |-> NoMime]
InlinePart(data, mimeType) == [k |-> "inlineData", text |-> <<>>, data |-> data, mimeType |-> mimeType]

\* the framework instruction appended to the prompt
FrameworkInstruction(fw) ==
    <<"\n\nIMPORTANT: Generate the code using the ", toUpperCase(fw),
      " framework. Use the appropriate HTML scaffold for ", fw, " provided in Step 4.">>

\* bringToLife: the text of the first request part
FinalPrompt(promptText, fileBase64, fw) ==
    (IF promptText # <<>> THEN promptText
     ELSE IF Truthy(fileBase64) THEN <<DefaultPromptFile>> ELSE <<DefaultPromptDemo>>)
    \o FrameworkInstruction(fw)

\* mutant: the inline data is pushed before the text
RequestParts_inlineFirst(promptText, fileBase64, mimeType, fw) ==
    (IF Truthy(fileBase64) /\ MimeTruthy(mimeType)
     THEN <<InlinePart(fileBase64, mimeType)>> ELSE <<>>)
    \o <<TextPart(FinalPrompt(promptText, fileBase64, fw))>>

\* bringToLife: the request parts
RequestParts(promptText, fileBase64, mimeType, fw) ==
    <<TextPart(FinalPrompt(promptText, fileBase64, fw))>>
    \o (IF Truthy(fileBase64) /\ MimeTruthy(mimeType)
        THEN <<InlinePart(fileBase64, mimeType)>> ELSE <<>>)

HtmlPlaceholder == Html("<!-- Failed to generate HTML -->")
\* mutant: the fallback document leaves the response text out
ErrorDocument_withoutText(raw) == [pre |-> "<html><body><pre>", body |-> "", post |-> "</pre></body></html>"]

ErrorDocument(raw) == [pre |-> "<html><body><pre>", body |-> raw, post |-> "</pre></body></html>"]

Result(html, name, layout, metadata) ==
    [html |-> html, name |-> name, layout |-> layout, metadata |-> metadata]

\* mutant: the catch returns a result without html
ParseResponse_fallbackWithoutHtml(responseText) ==
    LET text == IF responseText.k = "empty" THEN Text("object", "{}", EmptyObj) ELSE responseText
        parsed == JSONparse(text)
    IN  IF parsed.ok /\ ~PropertyThrows(parsed)
        THEN Result(IF HtmlTruthy(parsed.v.html) THEN parsed.v.html ELSE HtmlPlaceholder,
                    OrElse(parsed.v.name, "Generated UI"),
                    OrElse(parsed.v.layout, "{}"),
                    OrElse(parsed.v.metadata, "{}"))
        ELSE Result(Html(""), "Error", "{}", "{}")

\* bringToLife: response.text || "{}", JSON.parse, defaults, and the catch
ParseResponse(responseText) ==
    LET text == IF responseText.k = "empty" THEN Text("object", "{}", EmptyObj) ELSE responseText
        parsed == JSONparse(text)
    IN  IF parsed.ok /\ ~PropertyThrows(parsed)
        THEN Result(IF HtmlTruthy(parsed.v.html) THEN parsed.v.html ELSE HtmlPlaceholder,
                    OrElse(parsed.v.name, "Generated UI"),
                    OrElse(parsed.v.layout, "{}"),
                    OrElse(parsed.v.metadata, "{}"))
        ELSE Result(ErrorDocument(text.raw), "Error", "{}", "{}")

\* response texts of the generation call: JSON objects with all, some or none of
\* the fields, other JSON values, no text, and text that is not JSON
FullResponse == Text("object", "{object}", Obj(0, "Dashboard", Html("<h1>"), "L", "M", NoImage, JTsUndefined))
GarbageResponse == Text("garbage", "Sorry, I cannot help with that", EmptyObj)

ObjectResponses ==
    {Text("object", "{object}", Obj(0, name, Html(html), layout, metadata, NoImage, JTsUndefined)) :
        html \in {Undefined, "", "<h1>"}, name \in {Undefined, "Dashboard"},
        layout \in {Undefined, JsNull, "L"}, metadata \in {Undefined, "M"}}

ResponseTexts ==
    ObjectResponses \cup
    {Text("empty", "", EmptyObj),
     Text("null", "null", EmptyObj),
     Text("number", "5", EmptyObj),
     Text("array", "[]", EmptyObj),
     Text("garbage", "{\"html\": \"<h1>", EmptyObj),
     GarbageResponse}

\* analyzeImageForPrompt: response.text || ""
AnalysisTexts == {"", "A pricing page with three cards"}

\* ------------------------------------------------------------- App.tsx
\* mutant: the new entry is put at the end
Prepend_appends(c, h) == h \o <<c>>

\* [c, ...prev]
Prepend(c, h) == <<c>> \o h

RemoveAt(seq, i) == SubSeq(seq, 1, i - 1) \o SubSeq(seq, i + 1, Len(seq))

Call(promptText, file, imageBase64, mimeType, fw) ==
    [promptText |-> promptText, file |-> file, imageBase64 |-> imageBase64,
     mimeType |-> mimeType, framework |-> fw,
     parts |-> RequestParts(promptText, imageBase64, mimeType, fw)]

\* handleGenerate up to the await of the model call
handleGenerate(promptText, file, fileData, fw) ==
    /\ isGenerating' = TRUE
    /\ activeCreation' = Null
    /\ genCalls' = Append(genCalls, Call(promptText, file, fileData.base64, fileData.mimeType, fw))

\* the generate button (disabled={isGenerating}) and Cmd/Ctrl+Enter in the textarea
handleGenerateClick ==
    /\ FormShown
    /\ ~isGenerating
    /\ issued < MaxCalls
    /\ handleGenerate(prompt, selectedFile.file,
                      [base64 |-> selectedFile.base64, mimeType |-> selectedFile.mimeType],
                      framework)
    /\ issued' = issued + 1
    /\ last' = Did(NoAlert, Null)
    /\ UNCHANGED <<mounted, fetching, history, storedHistory, inputVars, analysisCalls,
                   exported, clock, uuids, imports, analyses>>
    /\ UNCHANGED themeVars

\* the Creation handleGenerate builds from a result
NewCreation(result, call, uuid, now) ==
    Creation(uuid,
             OrElse(result.name, call.file.name),
             result.html, result.layout, result.metadata,
             IF Truthy(call.imageBase64) /\ MimeTruthy(call.mimeType)
             THEN DataUrl(call.mimeType, call.imageBase64) ELSE NoImage,
             now)

\* mutant: only the result of the call issued last is applied
GenerateResolve_fenced(i, responseText, writeOk) ==
    /\ i \in 1..Len(genCalls)
    /\ LET result == ParseResponse(responseText) IN
       IF HtmlTruthy(result.html) /\ i = Len(genCalls)
       THEN LET newCreation == NewCreation(result, genCalls[i], randomUUID(uuids + 1), clock) IN
            /\ activeCreation' = newCreation
            /\ history' = Prepend(newCreation, history)
            /\ storedHistory' = SaveEffect(Prepend(newCreation, history), storedHistory, writeOk)
            /\ uuids' = uuids + 1
       ELSE UNCHANGED <<activeCreation, history, storedHistory, uuids>>
    /\ isGenerating' = FALSE
    /\ genCalls' = RemoveAt(genCalls, i)
    /\ last' = Did(NoAlert, Null)
    /\ clock' = clock + 1
    /\ UNCHANGED <<mounted, fetching, inputVars, analysisCalls, exported, issued,
                   imports, analyses>>
    /\ UNCHANGED themeVars

\* handleGenerate resumes with the response of call i
GenerateResolve(i, responseText, writeOk) ==
    /\ i \in 1..Len(genCalls)
    /\ LET result == ParseResponse(responseText) IN
       IF HtmlTruthy(result.html)
       THEN LET newCreation == NewCreation(result, genCalls[i], randomUUID(uuids + 1), clock) IN
            /\ activeCreation' = newCreation
            /\ history' = Prepend(newCreation, history)
            /\ storedHistory' = SaveEffect(Prepend(newCreation, history), storedHistory, writeOk)
            /\ uuids' = uuids + 1
       ELSE UNCHANGED <<activeCreation, history, storedHistory, uuids>>
    /\ isGenerating' = FALSE
    /\ genCalls' = RemoveAt(genCalls, i)
    /\ last' = Did(NoAlert, Null)
    /\ clock' = clock + 1
    /\ UNCHANGED <<mounted, fetching, inputVars, analysisCalls, exported, issued,
                   imports, analyses>>
    /\ UNCHANGED themeVars

AlertGenerate == "Something went wrong while bringing your file to life. Please try again."

\* mutant: the failure path does not reset isGenerating
GenerateReject_keepsGenerating(i) ==
    /\ i \in 1..Len(genCalls)
    /\ isGenerating' = isGenerating
    /\ genCalls' = RemoveAt(genCalls, i)
    /\ last' = Did(AlertGenerate, Null)
    /\ UNCHANGED <<mounted, fetching, activeCreation, history, storedHistory, inputVars,
                   analysisCalls, envVars>>
    /\ UNCHANGED themeVars

\* the model call of call i fails: bringToLife rethrows, handleGenerate alerts
GenerateReject(i) ==
    /\ i \in 1..Len(genCalls)
    /\ isGenerating' = FALSE
    /\ genCalls' = RemoveAt(genCalls, i)
    /\ last' = Did(AlertGenerate, Null)
    /\ UNCHANGED <<mounted, fetching, activeCreation, history, storedHistory, inputVars,
                   analysisCalls, envVars>>
    /\ UNCHANGED themeVars

\* the enhance button, disabled={isAnalyzing || isGenerating}
handleAutoEnhance ==
    /\ FormShown
    /\ ~isAnalyzing
    /\ ~isGenerating
    /\ analyses < MaxAnalyses
    /\ isAnalyzing' = TRUE
    /\ analysisCalls' = Append(analysisCalls,
                               [base64 |-> selectedFile.base64, mimeType |-> selectedFile.mimeType])
    /\ analyses' = analyses + 1
    /\ last' = Did(NoAlert, Null)
    /\ UNCHANGED <<mounted, fetching, appVars, error, isReading, reading, selectedFile,
                   prompt, framework, genCalls, exported, clock, uuids, issued, imports>>
    /\ UNCHANGED themeVars

\* mutant: the suggestion replaces the prompt
AnalyzeResolve_replaces(i, suggestion) ==
    /\ i \in 1..Len(analysisCalls)
    /\ prompt' = IF suggestion # "" THEN <<suggestion>> ELSE prompt
    /\ isAnalyzing' = FALSE
    /\ analysisCalls' = RemoveAt(analysisCalls, i)
    /\ last' = Did(NoAlert, Null)
    /\ UNCHANGED <<mounted, fetching, appVars, error, isReading, reading, selectedFile,
                   framework, genCalls, envVars>>
    /\ UNCHANGED themeVars

\* handleAutoEnhance resumes with the suggestion
AnalyzeResolve(i, suggestion) ==
    /\ i \in 1..Len(analysisCalls)
    /\ prompt' = IF suggestion # ""
                 THEN prompt \o (IF prompt # <<>> THEN <<"\n\n">> ELSE <<>>) \o <<suggestion>>
                 ELSE prompt
    /\ isAnalyzing' = FALSE
    /\ analysisCalls' = RemoveAt(analysisCalls, i)
    /\ last' = Did(NoAlert, Null)
    /\ UNCHANGED <<mounted, fetching, appVars, error, isReading, reading, selectedFile,
                   framework, genCalls, envVars>>
    /\ UNCHANGED themeVars

\* the analysis call fails: handleAnalyze catches and returns ""
AnalyzeReject(i) == AnalyzeResolve(i, "")

\* mutant: a reset also clears the upload form
handleReset_clearsForm ==
    /\ mounted
    /\ activeCreation' = Null
    /\ isGenerating' = FALSE
    /\ selectedFile' = Null
    /\ prompt' = <<>>
    /\ last' = Did(NoAlert, Null)
    /\ UNCHANGED <<mounted, fetching, history, storedHistory, error, isReading, reading,
                   framework, isAnalyzing, netVars, envVars>>
    /\ UNCHANGED themeVars

\* New, the close button, Escape with a preview open
handleReset ==
    /\ mounted
    /\ activeCreation' = Null
    /\ isGenerating' = FALSE
    /\ last' = Did(NoAlert, Null)
    /\ UNCHANGED <<mounted, fetching, history, storedHistory, inputVars, netVars, envVars>>
    /\ UNCHANGED themeVars

handleSelectCreation(i) ==
    /\ mounted
    /\ i \in 1..Len(history)
    /\ activeCreation' = history[i]
    /\ last' = Did(NoAlert, Null)
    /\ UNCHANGED <<mounted, fetching, isGenerating, history, storedHistory, inputVars,
                   netVars, envVars>>
    /\ UNCHANGED themeVars


\* ------------------------------------------------------ import and export
AlertImportFailed == "Failed to import creation."
AlertImportInvalid == "Invalid creation file format."

\* mutant: the id check never finds an entry
Exists_never(h, id) == FALSE

\* prev.some(c => c.id === id)
Exists(h, id) == \E k \in 1..Len(h) : h[k].id = id

\* mutant: the validation asks for html only
IsCreationFile_htmlOnly(parsed) == HtmlTruthy(parsed.html)

\* the validation of handleImportFile: parsed.html && parsed.name
IsCreationFile(parsed) == HtmlTruthy(parsed.html) /\ Truthy(parsed.name)

\* the Creation handleImportFile builds from a parsed file
ImportedCreation(parsed, uuid, now) ==
    Creation(IF parsed.id # 0 THEN parsed.id ELSE uuid,
             parsed.name, parsed.html, parsed.layout, parsed.metadata, parsed.originalImage,
             NewDate(IF JTsTruthy(parsed.timestamp) THEN parsed.timestamp ELSE JTs("num", now)))

\* handleImportFile: reader.onload for the chosen file
handleImportFile(json, writeOk) ==
    /\ mounted
    /\ imports < MaxImports
    /\ imports' = imports + 1
    /\ LET parsed == JSONparse(json) IN
       IF ~parsed.ok \/ PropertyThrows(parsed)
       THEN /\ last' = Did(AlertImportFailed, json)
            /\ UNCHANGED <<activeCreation, history, storedHistory, uuids>>
       ELSE IF IsCreationFile(parsed.v)
       THEN LET importedCreation == ImportedCreation(parsed.v, randomUUID(uuids + 1), clock) IN
            /\ history' = IF Exists(history, importedCreation.id)
                          THEN history ELSE Prepend(importedCreation, history)
            /\ storedHistory' = IF Exists(history, importedCreation.id)
                                THEN storedHistory
                                ELSE SaveEffect(Prepend(importedCreation, history), storedHistory, writeOk)
            /\ activeCreation' = importedCreation
            /\ uuids' = IF parsed.v.id # 0 THEN uuids ELSE uuids + 1
            /\ last' = Did(NoAlert, json)
       ELSE /\ last' = Did(AlertImportInvalid, json)
            /\ UNCHANGED <<activeCreation, history, storedHistory, uuids>>
    /\ clock' = clock + 1
    /\ UNCHANGED <<mounted, fetching, isGenerating, inputVars, netVars, exported,
                   issued, analyses>>
    /\ UNCHANGED themeVars

\* files a user can pick for import
ImportFiles ==
    {Text("garbage", "not json", EmptyObj),
     Text("null", "null", EmptyObj),
     Text("object", "{no html}", Obj(31, "Imported", Html(Undefined), "L", "M", NoImage, JTs("iso", 0))),
     Text("object", "{empty name}", Obj(31, "", Html("<imp>"), "L", "M", NoImage, JTs("iso", 0))),
     Text("object", "{with id}", Obj(31, "Imported", Html("<imp>"), "L", "M", NoImage, JTs("iso", 0))),
     Text("object", "{stored id}", Obj(21, "Other", Html("<other>"), "L", "M", NoImage, JTs("iso", 1))),
     Text("object", "{no id}", Obj(0, "Anonymous", Html("<anon>"), Undefined, Undefined, NoImage, JTsUndefined)),
     Text("object", "{numeric name}", Obj(33, NumberToken, Html("<imp>"), "L", "M", NoImage, JTs("iso", 0)))}

\* LivePreview.handleExportJSON: creation.name.replace throws for a name that is
\* not a string, before the download is triggered
handleExportJSON ==
    /\ mounted
    /\ activeCreation # Null
    /\ ~isGenerating
    /\ IF IsString(activeCreation.name)
       THEN /\ exported' = [file |-> JSONstringify(activeCreation), of |-> activeCreation]
            /\ last' = Did(NoAlert, Null)
       ELSE /\ exported' = exported
            /\ last' = Threw
    /\ UNCHANGED <<mounted, fetching, appVars, inputVars, netVars, clock, uuids, issued,
                   imports, analyses>>
    /\ UNCHANGED themeVars

\* ------------------------------------------------- LivePreview: the frame
\* the iframe's sandbox attribute
sandbox ==
    {"allow-scripts", "allow-forms", "allow-popups", "allow-modals", "allow-same-origin"}

HostOrigin == "host"

\* the origin of a sandboxed srcdoc frame: the embedder's when the sandbox has
\* allow-same-origin, an opaque origin otherwise
FrameOrigin == IF "allow-same-origin" \in sandbox THEN HostOrigin ELSE "opaque"

\* isLoading ? ... : creation?.html ? <iframe srcDoc={creation.html}> : null
FrameShown == ~isGenerating /\ activeCreation # Null /\ HtmlTruthy(activeCreation.html)

\* values a generated document can write under the key 'theme'
FrameThemes == {"system"}

\* a script of the framed document calls localStorage.setItem('theme', v); in
\* an opaque origin the access throws
FrameSetTheme(v) ==
    /\ mounted
    /\ FrameShown
    /\ "allow-scripts" \in sandbox
    /\ storedTheme' = IF FrameOrigin = HostOrigin THEN v ELSE storedTheme
    /\ last' = Did(NoAlert, Null)
    /\ UNCHANGED <<mounted, fetching, appVars, inputVars, netVars, envVars, theme, themeQueued>>

\* --------------------------------------------------- keyboard navigation
\* history.findIndex(c => c.id === id): a 0-based index, or -1
findIndex(h, id) ==
    IF Exists(h, id)
    THEN (CHOOSE k \in 1..Len(h) : h[k].id = id /\ \A j \in 1..(k - 1) : h[j].id # id) - 1
    ELSE 0 - 1

ArrowRight ==
    /\ mounted
    /\ activeCreation # Null
    /\ Len(history) > 1
    /\ LET currentIndex == findIndex(history, activeCreation.id) IN
       activeCreation' = IF currentIndex < Len(history) - 1
                         THEN history[currentIndex + 2] ELSE activeCreation
    /\ last' = Did(NoAlert, Null)
    /\ UNCHANGED <<mounted, fetching, isGenerating, history, storedHistory, inputVars,
                   netVars, envVars>>
    /\ UNCHANGED themeVars

ArrowLeft ==
    /\ mounted
    /\ activeCreation # Null
    /\ Len(history) > 1
    /\ LET currentIndex == findIndex(history, activeCreation.id) IN
       activeCreation' = IF currentIndex > 0
                         THEN history[currentIndex] ELSE activeCreation
    /\ last' = Did(NoAlert, Null)
    /\ UNCHANGED <<mounted, fetching, isGenerating, history, storedHistory, inputVars,
                   netVars, envVars>>
    /\ UNCHANGED themeVars

\* ---------------------------------------------------------- specification
\* The creation store: startup load, generation, import, export, selection and
\* navigation, under one upload (one file, one prompt, one framework) and with
\* storage writes that succeed.
StoreFile == File("limit.pdf", Mime("application", "pdf"), 10485760, "PDF")
StoreResponses == {FullResponse, GarbageResponse}

Next ==
    \/ Mount(TRUE)
    \/ \E o \in FetchOutcomes : FetchResolve(o, TRUE)
    \/ handleFileChange(StoreFile)
    \/ ReaderLoad
    \/ handleGenerateClick
    \/ \E i \in 1..MaxCalls, t \in StoreResponses : GenerateResolve(i, t, TRUE)
    \/ \E i \in 1..MaxCalls : GenerateReject(i)
    \/ handleReset
    \/ \E i \in 1..(3 + MaxCalls + MaxImports) : handleSelectCreation(i)
    \/ \E t \in ImportFiles : handleImportFile(t, TRUE)
    \/ ArrowRight
    \/ ArrowLeft

Spec == Init /\ [][Next]_vars

\* The upload form: every file, prompt and framework, generation and analysis,
\* over a history loaded from local storage.
InitUpload == Init /\ storedHistory = Stored("list", StoredDocs)

NextUpload ==
    \/ Mount(TRUE)
    \/ \E f \in UploadFiles : handleFileChange(f)
    \/ \E f \in UploadFiles : handleDrop(f)
    \/ ReaderLoad
    \/ ReaderError
    \/ DismissError
    \/ \E p \in TypedPrompts : setPrompt(p)
    \/ \E fw \in Frameworks : setFramework(fw)
    \/ handleClear
    \/ handleGenerateClick
    \/ \E i \in 1..MaxCalls, t \in {FullResponse} : GenerateResolve(i, t, TRUE)
    \/ \E i \in 1..MaxCalls : GenerateReject(i)
    \/ handleAutoEnhance
    \/ \E i \in 1..MaxAnalyses, t \in AnalysisTexts : AnalyzeResolve(i, t)
    \/ \E i \in 1..MaxAnalyses : AnalyzeReject(i)
    \/ handleReset

SpecUpload == InitUpload /\ [][NextUpload]_vars


\* Generation alone: one upload, every response text.
NextGenerate ==
    \/ Mount(TRUE)
    \/ handleFileChange(StoreFile)
    \/ ReaderLoad
    \/ handleGenerateClick
    \/ \E i \in 1..MaxCalls, t \in ResponseTexts : GenerateResolve(i, t, TRUE)
    \/ \E i \in 1..MaxCalls : GenerateReject(i)
    \/ handleReset

SpecGenerate == InitUpload /\ [][NextGenerate]_vars

\* a generation call in flight settles: its promise resolves or rejects
Settle ==
    \E i \in 1..MaxCalls :
        \/ \E t \in ResponseTexts : GenerateResolve(i, t, TRUE)
        \/ GenerateReject(i)

\* Generation where every call in flight eventually settles.
SpecGenerateFair == SpecGenerate /\ WF_vars(Settle)

\* Export and import: the store with Export JSON, whose downloads can be imported.
NextExport ==
    \/ Mount(TRUE)
    \/ \E o \in FetchOutcomes : FetchResolve(o, TRUE)
    \/ handleFileChange(StoreFile)
    \/ ReaderLoad
    \/ handleGenerateClick
    \/ \E i \in 1..MaxCalls, t \in StoreResponses : GenerateResolve(i, t, TRUE)
    \/ \E i \in 1..(3 + MaxCalls + MaxImports) : handleSelectCreation(i)
    \/ \E t \in ImportFiles \cup (IF exported = Null THEN {} ELSE {exported.file}) :
          handleImportFile(t, TRUE)
    \/ handleExportJSON

SpecExport == Init /\ [][NextExport]_vars

\* Persistence: the history-setting handlers with storage writes that succeed
\* or fail (quota), and fetches that can all end with a non-OK status.
FetchOutcomesPersist ==
    {<<a, b, c>> :
        a \in {Outcome("ok", FixtureBlog), Outcome("notok", EmptyObj)},
        b \in {Outcome("notok", EmptyObj), Outcome("reject", EmptyObj)},
        c \in {Outcome("ok", FixtureChess), Outcome("notok", EmptyObj)}}

ImportFilesPersist == {t \in ImportFiles : t.raw \in {"not json", "{with id}", "{no id}"}}

NextPersist ==
    \/ \E w \in BOOLEAN : Mount(w)
    \/ \E o \in FetchOutcomesPersist, w \in BOOLEAN : FetchResolve(o, w)
    \/ handleFileChange(StoreFile)
    \/ ReaderLoad
    \/ handleGenerateClick
    \/ \E i \in 1..MaxCalls, w \in BOOLEAN : GenerateResolve(i, FullResponse, w)
    \/ \E t \in ImportFilesPersist, w \in BOOLEAN : handleImportFile(t, w)

SpecPersist == Init /\ [][NextPersist]_vars

\* Theme and preview: startup with any stored theme, toggles, and previews of
\* stored and generated creations whose scripts run in the frame.
InitTheme ==
    /\ InitState
    /\ storedHistory = Stored("list", StoredDocs)
    /\ storedTheme \in StoredThemes

NextTheme ==
    \/ Mount(TRUE)
    \/ ThemeCommit
    \/ toggleTheme
    \/ handleFileChange(StoreFile)
    \/ ReaderLoad
    \/ handleGenerateClick
    \/ \E i \in 1..MaxCalls : GenerateResolve(i, FullResponse, TRUE)
    \/ handleReset
    \/ \E i \in 1..2 : handleSelectCreation(i)
    \/ \E v \in FrameThemes : FrameSetTheme(v)

SpecTheme == InitTheme /\ [][NextTheme]_vars

\* ------------------------------------------------------------- claims

\* C1: a file whose MIME type is not one of image/jpeg, image/png, image/webp,
\* image/heic, application/pdf is rejected by the upload handler: an error is
\* set, no read starts, no file becomes selected, and no generation call is
\* ever made for a file of such a type.
C1_UnlistedTypeRejected ==
    /\ [][\A f \in UploadFiles :
            (f.type \notin validTypes /\ (handleFileChange(f) \/ handleDrop(f)))
            => (error' # NoError /\ ~isReading' /\ reading' = Null /\ selectedFile' = Null)]_vars
    /\ [](\A k \in 1..Len(genCalls) : genCalls[k].mimeType \in validTypes)

\* C2: a file of an accepted type larger than 10*1024*1024 bytes gets the
\* too-large error, no read, no selection and no network call; one at or below
\* the limit is not rejected and goes to the reading state.
C2_SizeLimit ==
    [][\A f \in UploadFiles :
          (f.type \in validTypes /\ (handleFileChange(f) \/ handleDrop(f)))
          => IF f.size > 10485760
             THEN /\ error' = ErrTooLarge
                  /\ ~isReading' /\ reading' = Null /\ selectedFile' = Null
                  /\ genCalls' = genCalls /\ analysisCalls' = analysisCalls
             ELSE /\ error' = NoError
                  /\ isReading' /\ reading' = f]_vars

C2_Witness == error = ErrTooLarge /\ ~isReading /\ selectedFile = Null


\* C3: a generation call whose response text is valid JSON yields a Creation
\* with non-empty html and an id no entry of history has; it becomes the
\* active creation and the first entry of history, the earlier entries
\* following in their order.
C3_ValidResponsePrepended ==
    [][\A i \in 1..MaxCalls, t \in ResponseTexts :
          (t.k # "garbage" /\ GenerateResolve(i, t, TRUE))
          => /\ activeCreation' # Null
             /\ activeCreation'.html.pre # "" \/ activeCreation'.html.body \notin {"", "undefined", "null"}
             /\ \A k \in 1..Len(history) : history[k].id # activeCreation'.id
             /\ Len(history') = Len(history) + 1
             /\ history'[1] = activeCreation'
             /\ \A k \in 1..Len(history) : history'[k + 1] = history[k]]_vars

C3_Witness ==
    /\ Len(history) > 3
    /\ activeCreation = history[1]
    /\ activeCreation.id > 100
    /\ activeCreation.name = "Dashboard"

\* C4: for a response text that is not JSON the call does not fail: the result
\* is named "Error", its html is a document wrapping the raw text, and its
\* layout and metadata are empty objects.
C4_ParseFailureFallback ==
    [][\A i \in 1..MaxCalls, t \in ResponseTexts :
          (t.k = "garbage" /\ GenerateResolve(i, t, TRUE))
          => /\ last'.alert = ""
             /\ activeCreation' # Null
             /\ activeCreation'.name = "Error"
             /\ activeCreation'.html =
                    [pre |-> "<html><body><pre>", body |-> t.raw, post |-> "</pre></body></html>"]
             /\ activeCreation'.layout = "{}"
             /\ activeCreation'.metadata = "{}"]_vars

C4_Witness ==
    /\ activeCreation # Null
    /\ activeCreation.name = "Error"
    /\ activeCreation.html.body = "Sorry, I cannot help with that"

\* C5: for a response text that is JSON (an object with all, some or none of
\* the fields, null, a number, an array, or no text, read as "{}") the result's
\* html, name, layout and metadata are those of the parsed value, each replaced
\* by its default when missing; the artifact named "Error" is not returned.
C5_ParsedValueWithDefaults ==
    [][\A i \in 1..MaxCalls, t \in ResponseTexts :
          (t.k # "garbage" /\ GenerateResolve(i, t, TRUE))
          => LET given == IF t.k = "object" THEN t.v ELSE EmptyObj
                 missing(x) == x \in {"undefined", "null", ""}
             IN  /\ activeCreation' # Null
                 /\ activeCreation'.html =
                        IF missing(given.html.body)
                        THEN [pre |-> "", body |-> "<!-- Failed to generate HTML -->", post |-> ""]
                        ELSE given.html
                 /\ activeCreation'.name =
                        IF missing(given.name) THEN "Generated UI" ELSE given.name
                 /\ activeCreation'.layout =
                        IF missing(given.layout) THEN "{}" ELSE given.layout
                 /\ activeCreation'.metadata =
                        IF missing(given.metadata) THEN "{}" ELSE given.metadata]_vars

\* C6: a generate trigger from the file-selected state issues exactly one
\* generation call; its first part is the text of the prompt (a default when
\* the prompt is empty) followed by the framework instruction, its second part
\* the inline data of the selected file with its MIME type, present exactly
\* when the file's data and the MIME type are non-empty.
C6_OneCallWithOrderedParts ==
    [][handleGenerateClick
       => LET data == selectedFile.base64
              mime == selectedFile.mimeType
              inline == data # "" /\ mime # [major |-> "", minor |-> ""]
              upper == [react |-> "REACT", vue |-> "VUE", html |-> "HTML"]
              text == (IF prompt # <<>> THEN prompt
                       ELSE IF inline
                            THEN <<"Analyze this image/document and generate a production-ready interface following the pipeline.">>
                            ELSE <<"Create a demo app that shows off your capabilities.">>)
                      \o <<"\n\nIMPORTANT: Generate the code using the ", upper[framework],
                           " framework. Use the appropriate HTML scaffold for ", framework,
                           " provided in Step 4.">>
              call == genCalls'[Len(genCalls')]
          IN  /\ Len(genCalls') = Len(genCalls) + 1
              /\ \A k \in 1..Len(genCalls) : genCalls'[k] = genCalls[k]
              /\ analysisCalls' = analysisCalls
              /\ Len(call.parts) = IF inline THEN 2 ELSE 1
              /\ call.parts[1].k = "text"
              /\ call.parts[1].text = text
              /\ inline => /\ call.parts[2].k = "inlineData"
                           /\ call.parts[2].data = selectedFile.file.bytes
                           /\ call.parts[2].mimeType = selectedFile.file.type]_vars

C6_Witness ==
    /\ Len(genCalls) = 1
    /\ Len(genCalls[1].parts) = 2
    /\ genCalls[1].parts[1].text[1] = "make it dark mode"
    /\ genCalls[1].parts[1].text[3] = "VUE"
    /\ genCalls[1].parts[2].data = "PDF"

\* C7: every active Creation can be exported as JSON, and importing the
\* exported file is accepted and makes active a Creation with the same id,
\* html, name, layout, metadata, originalImage and timestamp.
C7_ExportImportRoundTrip ==
    [][/\ handleExportJSON
          => exported' # Null /\ exported'.of = activeCreation
       /\ (exported # Null /\ handleImportFile(exported.file, TRUE))
          => last'.alert = "" /\ activeCreation' = exported.of]_vars

\* C8 as stated: importing the same valid file twice in a row changes history
\* at most once, so the second of the two imports leaves it unchanged.
C8_SecondImportChangesNothing ==
    [][\A t \in ImportFiles :
          (last.imported = t /\ last.alert = "" /\ handleImportFile(t, TRUE))
          => history' = history]_vars

\* C8: importing a valid file leaves history unchanged when an entry has the
\* file's id and prepends the imported entry otherwise; a file without id gets
\* a fresh id; the imported entry becomes the active creation; importing the
\* same file twice in a row changes history at most once when the file has an id.
C8_ImportDeduplicatesById ==
    [][\A t \in ImportFiles :
          (/\ t.k = "object"
           /\ t.v.html.body \notin {"undefined", "null", ""}
           /\ t.v.name \notin {"undefined", "null", ""}
           /\ handleImportFile(t, TRUE))
          => /\ activeCreation' # Null
             /\ activeCreation'.name = t.v.name /\ activeCreation'.html = t.v.html
             /\ IF t.v.id # 0
                THEN /\ activeCreation'.id = t.v.id
                     /\ IF \E k \in 1..Len(history) : history[k].id = t.v.id
                        THEN history' = history
                        ELSE history' = <<activeCreation'>> \o history
                     /\ last.imported = t /\ last.alert = "" => history' = history
                ELSE /\ \A k \in 1..Len(history) : history[k].id # activeCreation'.id
                     /\ history' = <<activeCreation'>> \o history]_vars

C8_Witness ==
    /\ imports = 2
    /\ last.alert = ""
    /\ last.imported # Null
    /\ last.imported.v.id = 31
    /\ Len(history) = 1

\* C9: importing a file that is not JSON, is not an object, or lacks a
\* non-empty html or a non-empty name raises an alert and leaves history and
\* the active creation as they were.
C9_MalformedImportDiscarded ==
    [][\A t \in ImportFiles :
          (/\ \/ t.k # "object"
              \/ t.v.html.body \in {"undefined", "null", ""}
              \/ t.v.name \in {"undefined", "null", ""}
           /\ handleImportFile(t, TRUE))
          => /\ last'.alert # ""
             /\ history' = history
             /\ activeCreation' = activeCreation
             /\ storedHistory' = storedHistory]_vars

C9_Witness ==
    /\ last.alert = "Invalid creation file format."
    /\ last.imported.v.name = ""
    /\ activeCreation # Null
    /\ Len(history) > 0

\* C10: no two entries of history have the same id.
C10_UniqueIds ==
    \A i, j \in 1..Len(history) : i # j => history[i].id # history[j].id

\* C11: an entry of the in-memory history is never removed: every entry of
\* history before a step is an entry of history after it, also when the step
\* is the completion of the startup load.
C11_NeverRemoved ==
    [][\A k \in 1..Len(history) : \E j \in 1..Len(history') : history'[j] = history[k]]_vars

\* C12: after a step that changes the in-memory history and whose storage
\* write does not fail, the stored list is the serialisation of the in-memory
\* history, the empty list included.
C12_PersistedEqualsHistory ==
    [][(/\ \/ Mount(TRUE)
           \/ \E o \in FetchOutcomesPersist : FetchResolve(o, TRUE)
           \/ \E i \in 1..MaxCalls : GenerateResolve(i, FullResponse, TRUE)
           \/ \E t \in ImportFilesPersist : handleImportFile(t, TRUE)
        /\ history' # history)
       => storedHistory' = StringifyHistory(history')]_vars

\* C13: when the fixture fetches complete, every example whose fetch ended
\* with an OK response and a JSON body is an entry of history, whatever the
\* other fetches ended with (non-OK status, rejection, a body that is not JSON).
C13_FailedFetchSkipsOnlyItself ==
    [][\A o \in FetchOutcomes :
          FetchResolve(o, TRUE)
          => \A i \in 1..Len(o) :
                o[i].k = "ok"
                => \E j \in 1..Len(history') :
                      /\ history'[j].name = o[i].data.name
                      /\ history'[j].html = o[i].data.html]_vars

\* C14 as stated: after a failed generation call the active creation is null.
C14_FailureLeavesActiveNull ==
    [][\A i \in 1..MaxCalls :
          GenerateReject(i)
          => /\ last'.alert = "Something went wrong while bringing your file to life. Please try again."
             /\ history' = history
             /\ activeCreation' = Null
             /\ isGenerating' = FALSE]_vars

\* C14: a failed generation call raises the alert, adds nothing to history,
\* leaves the active creation as it was, issues no further call and sets
\* isGenerating to false; every settled call, resolved or rejected, sets
\* isGenerating to false, and a generation in progress is eventually followed
\* by isGenerating = false.
C14_FailureAlertsAndEndsGenerating ==
    /\ [][\A i \in 1..MaxCalls :
             GenerateReject(i)
             => /\ last'.alert = "Something went wrong while bringing your file to life. Please try again."
                /\ history' = history
                /\ storedHistory' = storedHistory
                /\ activeCreation' = activeCreation
                /\ isGenerating' = FALSE
                /\ issued' = issued
                /\ Len(genCalls') = Len(genCalls) - 1]_vars
    /\ [][Settle => ~isGenerating']_vars
    /\ (isGenerating ~> ~isGenerating)
    /\ (Len(genCalls) > 0 ~> Len(genCalls) = 0)

C14_Witness ==
    /\ last.alert = "Something went wrong while bringing your file to life. Please try again."
    /\ issued > 0
    /\ Len(genCalls) = 0
    /\ ~isGenerating
    /\ activeCreation = Null
    /\ Len(history) = 2

\* C15: a response text that is not JSON does not fail the generation: no
\* alert is raised, isGenerating becomes false, and a Creation named "Error"
\* with a fresh id becomes the active creation and the first entry of
\* history, in front of the entries history had.
C15_MalformedResponseBecomesCreation ==
    [][\A i \in 1..MaxCalls, t \in ResponseTexts :
          (t.k = "garbage" /\ GenerateResolve(i, t, TRUE))
          => /\ last'.alert = ""
             /\ ~last'.threw
             /\ ~isGenerating'
             /\ activeCreation' # Null
             /\ activeCreation'.name = "Error"
             /\ activeCreation'.html.body = t.raw
             /\ \A k \in 1..Len(history) : history[k].id # activeCreation'.id
             /\ history' = <<activeCreation'>> \o history
             /\ storedHistory'.k = "list" /\ Len(storedHistory'.v) = Len(history')]_vars

C15_Witness ==
    /\ Len(history) = 3
    /\ history[1].name = "Error"
    /\ history[1].html.body = "{\"html\": \"<h1>"
    /\ activeCreation = history[1]
    /\ last.alert = ""
    /\ ~isGenerating

\* C16: a generate trigger adds a call also while another call is in flight;
\* whichever call in flight resolves, in whatever order, its Creation is
\* added once at the front of history and becomes the active creation, and
\* the other calls stay in flight.
C16_OverlappingCallsAllApplied ==
    /\ [][handleGenerateClick => Len(genCalls') = Len(genCalls) + 1]_vars
    /\ [][\A i \in 1..MaxCalls, t \in ResponseTexts :
             GenerateResolve(i, t, TRUE)
             => /\ Len(genCalls') = Len(genCalls) - 1
                /\ Len(history') = Len(history) + 1
                /\ \A k \in 1..Len(history) : history'[k + 1] = history[k]
                /\ activeCreation' = history'[1]
                /\ t = FullResponse
                   => activeCreation'.name = "Dashboard" /\ activeCreation'.html.body = "<h1>"
                /\ t.k = "garbage"
                   => activeCreation'.name = "Error" /\ activeCreation'.html.body = t.raw]_vars

\* two calls were in flight together and one of them has resolved
C16_Witness ==
    /\ issued = 2
    /\ Len(genCalls) = 1
    /\ activeCreation # Null
    /\ activeCreation = history[1]
    /\ Len(history) = 3

\* C17: a reset leaves the calls in flight as they are, and when the only
\* call issued resolves after a reset performed while it was in flight
\* (isGenerating is false with the call still pending), its result does not
\* become the active creation and the preview stays closed.
C17_ResetDiscardsPendingResult ==
    /\ [][handleReset => genCalls' = genCalls]_vars
    /\ [][\A t \in ResponseTexts :
             (/\ issued = 1 /\ Len(genCalls) = 1 /\ ~isGenerating
              /\ GenerateResolve(1, t, TRUE))
             => /\ activeCreation' = activeCreation
                /\ activeCreation = Null => ~(activeCreation' # Null \/ isGenerating')]_vars

\* C18: when the analysis call fails or returns no text, the prompt and the
\* error are left as they were, no alert is raised and isAnalyzing becomes
\* false; when it returns text, the prompt becomes the text if it was empty
\* and otherwise the prompt, a blank line and the text, and isAnalyzing
\* becomes false.
C18_AnalysisDegradesGracefully ==
    [][\A i \in 1..MaxAnalyses :
          /\ (AnalyzeReject(i) \/ AnalyzeResolve(i, ""))
             => /\ prompt' = prompt
                /\ error' = error
                /\ last'.alert = ""
                /\ ~isAnalyzing'
          /\ \A t \in AnalysisTexts :
                (t # "" /\ AnalyzeResolve(i, t))
                => /\ prompt' = IF prompt = <<>> THEN <<t>> ELSE prompt \o <<"\n\n", t>>
                   /\ error' = error
                   /\ last'.alert = ""
                   /\ ~isAnalyzing']_vars

C18_Witness ==
    /\ analyses = 1
    /\ ~isAnalyzing
    /\ Len(analysisCalls) = 0
    /\ prompt = <<"make it dark mode", "\n\n", "A pricing page with three cards">>
    /\ error = "null"

\* C19: whenever the frame is shown its sandbox permits scripts, forms, popups
\* and modals and gives the framed document an origin other than the host's,
\* and a script of the framed document does not change the host's stored
\* theme or history.
C19_FrameIsSeparateOrigin ==
    /\ [](FrameShown
           => /\ {"allow-scripts", "allow-forms", "allow-popups", "allow-modals"} \subseteq sandbox
              /\ "allow-same-origin" \notin sandbox
              /\ FrameOrigin # HostOrigin)
    /\ [][\A v \in FrameThemes :
             FrameSetTheme(v) => storedTheme' = storedTheme /\ storedHistory' = storedHistory]_vars

\* C20: a toggle changes dark to light or light to dark and persists the new
\* value, and whenever a toggle can start the persisted value is the in-memory
\* one; so two toggles return the in-memory theme and the persisted value to
\* what they were before the first.
C20_ToggleTwiceRestores ==
    /\ [][toggleTheme
          => /\ \/ theme = "dark" /\ theme' = "light"
                \/ theme = "light" /\ theme' = "dark"
             /\ storedTheme' = theme']_vars
    /\ []((mounted /\ themeQueued = "") => storedTheme = theme)

\* C21: Cancel or Remove File acts only while a file is selected and leaves
\* the upload form in the empty drop-zone state: no file selected, the prompt
\* empty, no error, the framework react; it starts no generation or analysis
\* call and leaves history and the active creation as they were.
C21_CancelReturnsToDropZone ==
    [][handleClear
       => /\ selectedFile # Null
          /\ selectedFile' = Null
          /\ prompt' = <<>>
          /\ error' = "null"
          /\ framework' = "react"
          /\ DropZoneShown'
          /\ genCalls' = genCalls
          /\ analysisCalls' = analysisCalls
          /\ issued' = issued
          /\ analyses' = analyses
          /\ history' = history
          /\ activeCreation' = activeCreation]_vars

C21_Witness ==
    /\ mounted
    /\ selectedFile = Null
    /\ analyses = 1
    /\ ~isAnalyzing
    /\ issued = 0
    /\ prompt = <<>>
    /\ framework = "react"
    /\ error = "null"

\* C22: whenever a creation is active, history holds an entry with the id of
\* the active creation.
C22_ActiveIsInHistory ==
    activeCreation # Null
    => \E i \in 1..Len(history) : history[i].id = activeCreation.id

\* C23: a generation that resolves or an import, applied to a history whose
\* timestamps are valid dates in non-increasing order, leaves a history whose
\* timestamps are in non-increasing order: the entry at index 0 is the latest.
C23_NewestFirstKept ==
    [][(/\ \A i \in 1..Len(history) : history[i].timestamp # InvalidDate
        /\ \A i \in 1..(Len(history) - 1) : history[i].timestamp >= history[i + 1].timestamp
        /\ \/ \E i \in 1..MaxCalls, t \in StoreResponses : GenerateResolve(i, t, TRUE)
           \/ \E t \in ImportFiles : handleImportFile(t, TRUE))
       => /\ \A i \in 1..Len(history') : history'[i].timestamp # InvalidDate
          /\ \A i \in 1..(Len(history') - 1) :
                history'[i].timestamp >= history'[i + 1].timestamp]_vars

\* C24: the startup steps (the effects of the first render and the render for
\* the saved theme) leave the stored theme as it was, whether or not a value
\* was stored, and a stored 'light' is not replaced by 'dark' by the first
\* render.
C24_StartupLeavesStoredTheme ==
    /\ [][(Mount(TRUE) \/ ThemeCommit) => storedTheme' = storedTheme]_vars
    /\ [][(storedTheme = "light" /\ Mount(TRUE)) => storedTheme' # "dark"]_vars

\* C25: at startup the example fixtures are fetched exactly when local storage
\* holds no history key, an unparseable value or an empty list; when it holds
\* a non-empty list no fetch is issued and history becomes the stored entries
\* in their stored order; fetched examples arrive only after such a fetch.
C25_FetchIffNothingStored ==
    /\ [][Mount(TRUE)
          => /\ fetching' <=> \/ storedHistory.k \in {"absent", "garbage"}
                              \/ storedHistory.k = "list" /\ Len(storedHistory.v) = 0
             /\ (storedHistory.k = "list" /\ Len(storedHistory.v) > 0)
                => /\ ~fetching'
                   /\ Len(history') = Len(storedHistory.v)
                   /\ \A i \in 1..Len(storedHistory.v) :
                         /\ history'[i].id = storedHistory.v[i].id
                         /\ history'[i].name = storedHistory.v[i].name
                         /\ history'[i].html = storedHistory.v[i].html]_vars
    /\ [][\A o \in FetchOutcomes : FetchResolve(o, TRUE) => fetching /\ ~fetching']_vars

C25_Witness ==
    /\ mounted
    /\ ~fetching
    /\ imports = 0
    /\ issued = 0
    /\ Len(history) = 2
    /\ history[1].id = 21
    /\ history[2].id = 22

\* C26: whenever a generation call is in flight isGenerating is true, and
\* isGenerating is false only when no generation call is in flight.
C26_GeneratingWhileInFlight ==
    /\ Len(genCalls) > 0 => isGenerating
    /\ ~isGenerating => genCalls = <<>>

\* C27: isReading is true exactly while a file read is in flight, and a read
\* is in flight only in the drop-zone state; a drop or a file-picker change
\* starts a read only when none is in flight and neither isReading,
\* isGenerating nor disabled holds; a read that loads ends in the file-selected
\* state with its file and MIME type and isReading false, and a read that
\* fails ends in the drop-zone state with the read error and isReading false.
C27_OneReadAtATime ==
    /\ [](isReading <=> reading # Null)
    /\ [](reading # Null => selectedFile = Null)
    /\ [][\A f \in UploadFiles :
             ((handleFileChange(f) \/ handleDrop(f)) /\ reading' = f)
             => /\ reading = Null
                /\ ~isReading
                /\ ~isGenerating
                /\ ~isFocused
                /\ isReading']_vars
    /\ [][ReaderLoad
          => /\ isReading
             /\ ~isReading'
             /\ reading' = Null
             /\ selectedFile' # Null
             /\ selectedFile'.file = reading
             /\ selectedFile'.base64 = Base64(reading)
             /\ selectedFile'.mimeType = reading.type
             /\ error' = error]_vars
    /\ [][ReaderError
          => /\ isReading
             /\ ~isReading'
             /\ reading' = Null
             /\ selectedFile' = Null
             /\ error' = ErrRead]_vars

C27_Witness ==
    /\ mounted
    /\ error = ErrRead
    /\ ~isReading
    /\ reading = Null
    /\ selectedFile = Null

\* C28: whenever no file is selected the prompt is empty and the framework is
\* react, and an analysis call that resolves while no file is selected leaves
\* the prompt empty.
C28_DropZoneHasEmptyPrompt ==
    /\ [](selectedFile = Null => (prompt = <<>> /\ framework = "react"))
    /\ [][\A i \in 1..MaxAnalyses, t \in AnalysisTexts :
             (selectedFile = Null /\ AnalyzeResolve(i, t)) => prompt' = <<>>]_vars

\* C29: a reset sets the active creation to null and isGenerating to false
\* and nothing else: history, the persisted history, the calls in flight and
\* the upload form's selected file, prompt, framework and error stay as they
\* were, so the form of a selected file is still shown after the reset.
C29_ResetKeepsFormAndHistory ==
    [][handleReset
       => /\ activeCreation' = Null
          /\ ~isGenerating'
          /\ ~isFocused'
          /\ history' = history
          /\ storedHistory' = storedHistory
          /\ selectedFile' = selectedFile
          /\ prompt' = prompt
          /\ framework' = framework
          /\ error' = error
          /\ genCalls' = genCalls
          /\ analysisCalls' = analysisCalls
          /\ FormShown => FormShown']_vars

C29_Witness ==
    /\ activeCreation = Null
    /\ ~isGenerating
    /\ issued = 1
    /\ genCalls = <<>>
    /\ Len(history) = 3
    /\ selectedFile # Null
    /\ prompt = <<"make it dark mode">>
    /\ framework = "vue"

\* C30: with a creation active and more than one history entry, ArrowRight
\* makes the entry after the active one's position active and ArrowLeft the
\* entry before it, each leaving the active creation unchanged at the last or
\* first position; the active creation stays a creation, and when no history
\* entry has the active creation's id both keys leave it unchanged.
C30_ArrowKeysStepThroughHistory ==
    /\ [][\A k \in 1..Len(history) :
             (/\ activeCreation # Null
              /\ history[k].id = activeCreation.id
              /\ \A j \in 1..(k - 1) : history[j].id # activeCreation.id)
             => /\ ArrowRight
                   => activeCreation' = IF k < Len(history) THEN history[k + 1]
                                        ELSE activeCreation
                /\ ArrowLeft
                   => activeCreation' = IF k > 1 THEN history[k - 1]
                                        ELSE activeCreation]_vars
    /\ [][(ArrowRight \/ ArrowLeft)
          => /\ activeCreation' # Null
             /\ \/ activeCreation' = activeCreation
                \/ \E k \in 1..Len(history) : activeCreation' = history[k]]_vars
    /\ [][((ArrowRight \/ ArrowLeft)
           /\ \A k \in 1..Len(history) : history[k].id # activeCreation.id)
          => activeCreation' = activeCreation]_vars

====
